---- MODULE Spec2Model ----
(***************************************************************************)
(* Bridge criticality analysis (bridge_criticality_analysis.ipynb).        *)
(*                                                                         *)
(* The notebook is a batch pipeline run cell by cell: load two CSV tables, *)
(* clean the Functionality column, score every buffer-distance group by    *)
(* min-max normalisation, concatenate, pick the top 10 per group, count    *)
(* how often a bridge recurs, and plot.  Of the plotting cells the model   *)
(* keeps what they index and select, not what they draw.  The state is the *)
(* set of notebook variables plus the position of the run (pc).            *)
(*                                                                         *)
(* Numbers: the notebook computes in float64; the model computes in exact  *)
(* rationals extended with NaN and +-inf (the values pandas produces for a *)
(* zero divisor).  Bridge identifiers are the naturals 1..n.  The CSV text *)
(* of a Functionality cell is a sequence of one-character strings.         *)
(* Columns that take no part in scoring, ranking or counting (OSM ID,      *)
(* Highway Type, the global efficiencies and the relative change derived   *)
(* from them) are not carried.                                             *)
(***************************************************************************)
EXTENDS Integers, Sequences, FiniteSets, TLC

\* ------------------------------------------------------------------------
\* Bounds of the checked input space
\* ------------------------------------------------------------------------
MaxFuncRows == 2
MaxEffRows == 3
MaxOddRows == 2
MaxWideRows == 11
MaxTie == 2

\* ------------------------------------------------------------------------
\* Sequence helpers
\* ------------------------------------------------------------------------
RECURSIVE Flatten(_)
Flatten(ss) == IF ss = <<>> THEN <<>> ELSE Head(ss) \o Flatten(Tail(ss))

Range(s) == {s[k] : k \in DOMAIN s}

SetMin(S) == CHOOSE x \in S : \A y \in S : x <= y
SetMax(S) == CHOOSE x \in S : \A y \in S : x >= y

\* sorted(..., reverse=True): the largest element first.
RECURSIVE SortedSeq_Descending(_)
SortedSeq_Descending(S) ==
  IF S = {} THEN <<>>
  ELSE <<SetMax(S)>> \o SortedSeq_Descending(S \ {SetMax(S)})

RECURSIVE SortedSeq(_)
SortedSeq(S) ==
  IF S = {} THEN <<>> ELSE <<SetMin(S)>> \o SortedSeq(S \ {SetMin(S)})

Abs(x) == IF x < 0 THEN -x ELSE x

RECURSIVE GCD(_, _)
GCD(a, b) == IF b = 0 THEN a ELSE GCD(b, a % b)

\* ------------------------------------------------------------------------
\* float64 values as extended rationals
\* ------------------------------------------------------------------------
NaN == [k |-> "nan", n |-> 0, d |-> 1]
Inf(sign) == [k |-> "inf", n |-> sign, d |-> 1]

Rat(n, d) ==
  LET g == GCD(Abs(n), Abs(d))
      s == IF d < 0 THEN -1 ELSE 1
  IN  [k |-> "num", n |-> s * (n \div g), d |-> s * (d \div g)]

Num(x) == [k |-> "num", n |-> x, d |-> 1]

Sgn(x) == IF x.n < 0 THEN -1 ELSE IF x.n > 0 THEN 1 ELSE 0

FAdd(a, b) ==
  CASE a.k = "nan" \/ b.k = "nan" -> NaN
    [] a.k = "inf" /\ b.k = "inf" -> IF a.n = b.n THEN a ELSE NaN
    [] a.k = "inf" -> a
    [] b.k = "inf" -> b
    [] OTHER -> Rat(a.n * b.d + b.n * a.d, a.d * b.d)

FNeg(a) == IF a.k = "nan" THEN NaN ELSE [a EXCEPT !.n = -a.n]

FSub(a, b) == FAdd(a, FNeg(b))

\* IEEE division: 0/0 is NaN, x/0 is a signed infinity, nothing raises.
\* A guarded division that answers 0 for a zero divisor.
FDiv_ZeroGuard(a, b) ==
  CASE a.k = "nan" \/ b.k = "nan" -> NaN
    [] a.k = "inf" /\ b.k = "inf" -> NaN
    [] a.k = "inf" -> Inf(a.n * (IF Sgn(b) < 0 THEN -1 ELSE 1))
    [] b.k = "inf" -> Num(0)
    [] b.n = 0 -> Num(0)
    [] OTHER -> Rat(a.n * b.d, a.d * b.n)

FDiv(a, b) ==
  CASE a.k = "nan" \/ b.k = "nan" -> NaN
    [] a.k = "inf" /\ b.k = "inf" -> NaN
    [] a.k = "inf" -> Inf(a.n * (IF Sgn(b) < 0 THEN -1 ELSE 1))
    [] b.k = "inf" -> Num(0)
    [] b.n = 0 -> IF a.n = 0 THEN NaN ELSE Inf(Sgn(a))
    [] OTHER -> Rat(a.n * b.d, a.d * b.n)

\* a > b as float64 compares: every comparison with NaN is false.
FGt(a, b) ==
  CASE a.k = "nan" \/ b.k = "nan" -> FALSE
    [] a.k = "inf" /\ b.k = "inf" -> a.n > b.n
    [] a.k = "inf" -> a.n > 0
    [] b.k = "inf" -> b.n < 0
    [] OTHER -> a.n * b.d > b.n * a.d

\* ------------------------------------------------------------------------
\* CSV text of a Functionality cell
\* ------------------------------------------------------------------------
DigitChars == {"0", "1", "2", "3", "4", "5", "6", "7", "8", "9"}

DigitVal(c) ==
  CASE c = "0" -> 0 [] c = "1" -> 1 [] c = "2" -> 2 [] c = "3" -> 3
    [] c = "4" -> 4 [] c = "5" -> 5 [] c = "6" -> 6 [] c = "7" -> 7
    [] c = "8" -> 8 [] c = "9" -> 9

DigitChar(v) ==
  CASE v = 0 -> "0" [] v = 1 -> "1" [] v = 2 -> "2" [] v = 3 -> "3"
    [] v = 4 -> "4" [] v = 5 -> "5" [] v = 6 -> "6" [] v = 7 -> "7"
    [] v = 8 -> "8" [] v = 9 -> "9"

\* str.rstrip('%'): drops every trailing percent sign, however many.
\* removesuffix('%'): drops one trailing percent sign at most.
RStripPercent_One(s) ==
  IF s # <<>> /\ s[Len(s)] = "%" THEN SubSeq(s, 1, Len(s) - 1) ELSE s

RECURSIVE RStripPercent(_)
RStripPercent(s) ==
  IF s # <<>> /\ s[Len(s)] = "%" THEN RStripPercent(SubSeq(s, 1, Len(s) - 1))
  ELSE s

\* float(text) succeeds: the text is a non-empty string of decimal digits.
IsNumericText(s) == s # <<>> /\ \A k \in DOMAIN s : s[k] \in DigitChars

RECURSIVE TextValue(_)
TextValue(s) ==
  IF s = <<>> THEN 0
  ELSE 10 * TextValue(SubSeq(s, 1, Len(s) - 1)) + DigitVal(s[Len(s)])

RECURSIVE DigitsOf(_)
DigitsOf(v) ==
  IF v < 10 THEN <<DigitChar(v)>>
  ELSE DigitsOf(v \div 10) \o <<DigitChar(v % 10)>>

PercentText(v) == DigitsOf(v) \o <<"%">>

\* ------------------------------------------------------------------------
\* Input files (what pd.read_csv finds on disk)
\* ------------------------------------------------------------------------
Buffers == {5, 10}
Changes == {-2, 1}
TopN == 10
MinFrequency == 3
MaxPlotted == 5

BridgeIds == {1, 2}

\* Well-formed percent cells.
GoodCells == {<<"1", "%">>, <<"2", "%">>}

\* Cells that depart from "number followed by one percent sign".
OddCells ==
  { <<"2">>, <<"1", "%", "%">>, <<"x", "%">>, <<"%">>, <<"1", "x">>,
    <<"%", "2">> }

SeqsUpTo(S, n) == UNION {[1..m -> S] : m \in 0..n}

\* Small files list their rows in one fixed order (repeated rows allowed):
\* the functionality file by bridge and value, the efficiency file by
\* descending buffer distance, then bridge, then change.  Row order bears
\* only on the order of the output, which the wide files below exercise.
FuncRowKey(r) == 10 * r.iop + TextValue(RStripPercent(r.text))

EffRowKey(r) == 1000 - 50 * r.buffer + 10 * r.iop + r.change

FuncFiles ==
  {f \in SeqsUpTo([iop : BridgeIds, text : GoodCells], MaxFuncRows) :
     \A j, k \in DOMAIN f : j < k => FuncRowKey(f[j]) <= FuncRowKey(f[k])}

EffFiles ==
  {f \in SeqsUpTo([iop : BridgeIds, buffer : Buffers, change : Changes],
                  MaxEffRows) :
     \A j, k \in DOMAIN f : j < k => EffRowKey(f[j]) <= EffRowKey(f[k])}

\* Files with malformed Functionality cells, each paired with one
\* efficiency row per bridge at buffer 5.
OddFuncFiles ==
  SeqsUpTo([iop : BridgeIds, text : GoodCells \cup OddCells], MaxOddRows)

OddEffFile == [i \in BridgeIds |-> [iop |-> i, buffer |-> 5, change |-> -i]]

\* Wide files: n bridges, all present in both tables and at buffers 5 and
\* 10, the first MaxPlotted + 1 of them also at buffer 7 and the first
\* MaxPlotted - 1 also at buffer 8, so that more than MaxPlotted bridges
\* recur MinFrequency times and two of them tie at the cut.
\* Functionality rises with the bridge number, except that the g bridges
\* from number TopN - o on share one value; at buffer 5 the change
\* magnitude falls as functionality rises, so these g rows tie, inside the
\* first TopN rows or across the cut;
\* at buffer 10 it falls with the bridge number, so no two rows tie; at
\* buffer 7 every bridge listed has the same magnitude, with alternating
\* sign; at buffer 8 the magnitude falls with the bridge number.
\* The efficiency file lists buffer 10, then 5, then 7, then 8, and within
\* a buffer the bridges from the last to the first.
WideLevel(i, g, o) ==
  IF i >= TopN - o /\ i < TopN - o + g THEN TopN - o ELSE i

WideFuncFile(n, g, o) ==
  [i \in 1..n |-> [iop |-> i, text |-> PercentText(WideLevel(i, g, o))]]

WideEffFile(n, g, o) ==
  [k \in 1..(2 * n + 2 * MaxPlotted) |->
     IF k <= n
     THEN [iop |-> n + 1 - k, buffer |-> 10, change |-> -k]
     ELSE IF k <= 2 * n
     THEN [iop |-> 2 * n + 1 - k, buffer |-> 5,
           change |-> -(n + 1 - WideLevel(2 * n + 1 - k, g, o))]
     ELSE IF k <= 2 * n + MaxPlotted + 1
     THEN [iop |-> 2 * n + MaxPlotted + 2 - k, buffer |-> 7,
           change |-> IF k % 2 = 0 THEN 3 ELSE -3]
     ELSE [iop |-> 2 * n + 2 * MaxPlotted + 1 - k, buffer |-> 8,
           change |-> -(k - 2 * n - MaxPlotted - 1)]]

WideParams ==
  {p \in [n : (TopN - 1)..MaxWideRows, g : 1..MaxTie, o : 0..(MaxTie - 1)] :
     p.o < p.g}

\* ------------------------------------------------------------------------
\* State: the notebook's variables
\* ------------------------------------------------------------------------
VARIABLES
  pc,                      \* the cell about to run (or halted in), or "done"
  error,                   \* the exception that halted the run, or "none"
  functionality_csv,       \* Functionality_475years.csv: rows [iop, text]
  functionality_df,        \* rows [iop, text, num]
  func_dtype,              \* dtype of the Functionality column
  func_key,                \* name of the bridge identifier column
  efficiency_df,           \* rows [iop, buffer, change]
  buffer_distances,        \* sorted distinct buffer distances
  done_buffers,            \* iterations of the cell 10 loop completed
  results,                 \* dict: buffer -> scored rows
  all_criticality_scores,  \* list of scored groups
  all_scores_df,           \* the comprehensive scored table
  summary_df,              \* the top-10 summary table
  bridge_frequency,        \* value_counts of Bridge IOP in summary_df
  frequent_bridges,        \* the identifiers kept by the frequency filter
  plotted_bridges,         \* the identifiers of frequent_bridges[:5]
  buffer_5km,              \* the scored group looked up by cell 21
  written                  \* CSV artifacts written so far, in order

vars ==
  <<pc, error, functionality_csv, functionality_df, func_dtype, func_key, efficiency_df,
    buffer_distances, done_buffers, results, all_criticality_scores,
    all_scores_df, summary_df, bridge_frequency, frequent_bridges,
    plotted_bridges, buffer_5km, written>>

\* The variables of the plotting cells 17 to 21.
plot_vars == <<frequent_bridges, plotted_bridges, buffer_5km>>

\* pd.read_csv type inference: a column whose every cell parses as a number
\* is loaded numeric, any other column is loaded as strings (object).
\* A column without rows is loaded as object.
ColumnIsNumeric(file) ==
  file # <<>> /\ \A k \in DOMAIN file : IsNumericText(file[k].text)

LoadFunctionality(file) ==
  IF ColumnIsNumeric(file)
  THEN [k \in DOMAIN file |->
          [iop |-> file[k].iop, text |-> <<>>, num |-> TextValue(file[k].text)]]
  ELSE [k \in DOMAIN file |->
          [iop |-> file[k].iop, text |-> file[k].text, num |-> 0]]

LoadedDtype(file) == IF ColumnIsNumeric(file) THEN "float64" ELSE "object"

Loaded(ffile, efile) ==
  /\ pc = "cell5"
  /\ error = "none"
  /\ functionality_csv = ffile
  /\ functionality_df = LoadFunctionality(ffile)
  /\ func_dtype = LoadedDtype(ffile)
  /\ func_key = "IOP"
  /\ efficiency_df = efile
  /\ buffer_distances = <<>>
  /\ done_buffers = 0
  /\ results = <<>>
  /\ all_criticality_scores = <<>>
  /\ all_scores_df = <<>>
  /\ summary_df = <<>>
  /\ bridge_frequency = <<>>
  /\ frequent_bridges = {}
  /\ plotted_bridges = {}
  /\ buffer_5km = <<>>
  /\ written = <<>>

InitSmall == \E ffile \in FuncFiles, efile \in EffFiles : Loaded(ffile, efile)

InitOdd == \E ffile \in OddFuncFiles : Loaded(ffile, OddEffFile)

InitWide ==
  \E p \in WideParams :
    Loaded(WideFuncFile(p.n, p.g, p.o), WideEffFile(p.n, p.g, p.o))

Init == InitSmall \/ InitOdd \/ InitWide

\* ------------------------------------------------------------------------
\* Cell 5: the Normalizer
\* ------------------------------------------------------------------------
\* .str.rstrip('%').astype(float) on one cell: the text that float() gets.
Stripped(row) == RStripPercent(row.text)

CleanRow(row) ==
  [iop |-> row.iop, text |-> <<>>, num |-> TextValue(Stripped(row))]

\* The exception the first statement of cell 5 raises, or "none".
\* No type check by the .str accessor: a numeric column is let through.
NormalizeError_AnyDtype(df, dtype) ==
  IF dtype = "object" /\ \E k \in DOMAIN df : ~IsNumericText(Stripped(df[k]))
  THEN "ValueError"
  ELSE "none"

NormalizeError(df, dtype) ==
  IF dtype # "object" THEN "AttributeError"
  ELSE IF \E k \in DOMAIN df : ~IsNumericText(Stripped(df[k]))
       THEN "ValueError"
       ELSE "none"

UniqueBuffers(df) == {df[k].buffer : k \in DOMAIN df}

Normalize ==
  /\ pc = "cell5"
  /\ error = "none"
  /\ IF NormalizeError(functionality_df, func_dtype) # "none"
     THEN /\ pc' = pc
          /\ error' = NormalizeError(functionality_df, func_dtype)
          /\ UNCHANGED <<functionality_csv, functionality_df, func_dtype, func_key,
                         buffer_distances>>
     ELSE /\ pc' = "cell10"
          /\ error' = error
          /\ functionality_df' =
               [k \in DOMAIN functionality_df |-> CleanRow(functionality_df[k])]
          /\ func_dtype' = "float64"
          /\ func_key' = "Bridge IOP"
          /\ buffer_distances' = SortedSeq(UniqueBuffers(efficiency_df))
  /\ UNCHANGED <<functionality_csv, efficiency_df, done_buffers, results,
                 all_criticality_scores, all_scores_df, summary_df,
                 bridge_frequency, written>>
  /\ UNCHANGED plot_vars

\* ------------------------------------------------------------------------
\* Cell 10: the Scorer, one loop iteration per buffer distance
\* ------------------------------------------------------------------------
\* efficiency_df[efficiency_df['Buffer Distance (km)'] == buffer]
\* >= in place of ==: rows of larger buffer distances leak into the group.
BufferRows_AtLeast(df, buffer) == SelectSeq(df, LAMBDA r : r.buffer >= buffer)

BufferRows(df, buffer) == SelectSeq(df, LAMBDA r : r.buffer = buffer)

\* pd.merge(left, right, on='Bridge IOP', how='inner'): every pairing of a
\* left row with a right row of the same identifier, in left order and,
\* for one left row, in right order.
\* how='left': a left row without a match is kept, with no Functionality.
MergeInner_KeepLeft(left, right) ==
  Flatten([k \in DOMAIN left |->
             LET m == SelectSeq(right, LAMBDA r : r.iop = left[k].iop)
                 pad == IF m = <<>> THEN <<[iop |-> left[k].iop, num |-> 0]>> ELSE m
             IN  [j \in DOMAIN pad |->
                    [iop |-> left[k].iop, buffer |-> left[k].buffer,
                     change |-> left[k].change, Functionality |-> pad[j].num]]])

MergeInner(left, right) ==
  Flatten([k \in DOMAIN left |->
             LET m == SelectSeq(right, LAMBDA r : r.iop = left[k].iop)
             IN  [j \in DOMAIN m |->
                    [iop |-> left[k].iop, buffer |-> left[k].buffer,
                     change |-> left[k].change, Functionality |-> m[j].num]]])

\* Series.min() / Series.max(): NaN for an empty column.
ColMin(col) == IF col = <<>> THEN NaN ELSE Num(SetMin(Range(col)))
ColMax(col) == IF col = <<>> THEN NaN ELSE Num(SetMax(Range(col)))

NormalizedEfficiencyChange(row) == Abs(row.change)

FuncCol(merged) == [k \in DOMAIN merged |-> merged[k].Functionality]
EffCol(merged) == [k \in DOMAIN merged |-> NormalizedEfficiencyChange(merged[k])]

NormFunc_NotInverted(f, min_func, max_func) ==
  FDiv(FSub(Num(f), min_func), FSub(max_func, min_func))

NormFunc(f, min_func, max_func) ==
  FSub(Num(1), FDiv(FSub(Num(f), min_func), FSub(max_func, min_func)))

NormEff(e, min_eff, max_eff) ==
  FDiv(FSub(Num(e), min_eff), FSub(max_eff, min_eff))

CriticalityScore_NotHalved(norm_func, norm_eff) == FAdd(norm_func, norm_eff)

CriticalityScore(norm_func, norm_eff) ==
  FDiv(FAdd(norm_func, norm_eff), Num(2))

ScoreRow(row, min_func, max_func, min_eff, max_eff) ==
  LET nf == NormFunc(row.Functionality, min_func, max_func)
      ne == NormEff(NormalizedEfficiencyChange(row), min_eff, max_eff)
  IN  [iop |-> row.iop, buffer |-> row.buffer, change |-> row.change,
       Functionality |-> row.Functionality,
       nec |-> NormalizedEfficiencyChange(row),
       Norm_Func |-> nf, Norm_Eff |-> ne,
       score |-> CriticalityScore(nf, ne)]

ScoreGroup(merged) ==
  LET min_func == ColMin(FuncCol(merged))
      max_func == ColMax(FuncCol(merged))
      min_eff == ColMin(EffCol(merged))
      max_eff == ColMax(EffCol(merged))
  IN  [k \in DOMAIN merged |->
         ScoreRow(merged[k], min_func, max_func, min_eff, max_eff)]

\* Normalisation over the whole efficiency table, filtered afterwards.
ScoredFor_GlobalNorm(eff, func, buffer) ==
  BufferRows(ScoreGroup(MergeInner(eff, func)), buffer)

\* The scored table of one buffer distance, from the two input tables.
ScoredFor(eff, func, buffer) ==
  ScoreGroup(MergeInner(BufferRows(eff, buffer), func))

\* merged_df['Buffer Distance (km)'] = buffer
TagBuffer(rows, buffer) ==
  [k \in DOMAIN rows |-> [rows[k] EXCEPT !.buffer = buffer]]

ScoreBuffer ==
  /\ pc = "cell10"
  /\ error = "none"
  /\ done_buffers < Len(buffer_distances)
  /\ LET buffer == buffer_distances[done_buffers + 1]
         merged_df == ScoredFor(efficiency_df, functionality_df, buffer)
     IN  /\ results' = (buffer :> merged_df) @@ results
         /\ all_criticality_scores' =
              Append(all_criticality_scores, TagBuffer(merged_df, buffer))
  /\ done_buffers' = done_buffers + 1
  /\ UNCHANGED <<pc, error, functionality_csv, functionality_df, func_dtype, func_key,
                 efficiency_df, buffer_distances, all_scores_df, summary_df,
                 bridge_frequency, written>>
  /\ UNCHANGED plot_vars

\* The for loop of cell 10 is exhausted; the notebook moves to cell 11.
ScoreLoopExit ==
  /\ pc = "cell10"
  /\ error = "none"
  /\ done_buffers = Len(buffer_distances)
  /\ pc' = "cell11"
  /\ UNCHANGED <<error, functionality_csv, functionality_df, func_dtype, func_key, efficiency_df,
                 buffer_distances, done_buffers, results,
                 all_criticality_scores, all_scores_df, summary_df,
                 bridge_frequency, written>>
  /\ UNCHANGED plot_vars

\* ------------------------------------------------------------------------
\* Cell 11: concatenate and save the comprehensive table
\* ------------------------------------------------------------------------
\* pd.concat raises ValueError on an empty list of frames.
Concat ==
  /\ pc = "cell11"
  /\ error = "none"
  /\ IF all_criticality_scores = <<>>
     THEN /\ pc' = pc
          /\ error' = "ValueError"
          /\ UNCHANGED <<all_scores_df, written>>
     ELSE /\ pc' = "cell13"
          /\ error' = error
          /\ all_scores_df' = Flatten(all_criticality_scores)
          /\ written' = Append(written, "all_buffer_criticality_scores.csv")
  /\ UNCHANGED <<functionality_csv, functionality_df, func_dtype, func_key, efficiency_df,
                 buffer_distances, done_buffers, results,
                 all_criticality_scores, summary_df, bridge_frequency>>
  /\ UNCHANGED plot_vars

\* ------------------------------------------------------------------------
\* Cell 13: top 10 per buffer distance
\* ------------------------------------------------------------------------
\* sort_values('Criticality Score', ascending=False) with the default
\* kind='quicksort': rows come out by descending score, rows whose score is
\* NaN last in their original order; the sort is not stable, so rows of
\* equal score may come out in any order.
NanIndices(rows) == {k \in DOMAIN rows : rows[k].score.k = "nan"}

\* The orders are sequences of row numbers; of several identical rows the
\* first is taken first, since exchanging them changes nothing.
RECURSIVE DescOrders(_, _)
DescOrders(rows, S) ==
  IF S = {} THEN {<<>>}
  ELSE LET top == {m \in S : \A j \in S : ~FGt(rows[j].score, rows[m].score)}
           pick == {m \in top : \A j \in top : rows[j] = rows[m] => m <= j}
       IN  UNION { {<<k>> \o rest : rest \in DescOrders(rows, S \ {k})} :
                   k \in pick }

\* ascending=True: the same rows, lowest score first.
SortDescending_Ascending(rows) ==
  { [p \in DOMAIN rows |->
       rows[(SortedSeq(NanIndices(rows)) \o ord)[Len(rows) + 1 - p]]] :
      ord \in DescOrders(rows, DOMAIN rows \ NanIndices(rows)) }

SortDescending(rows) ==
  { [p \in DOMAIN rows |-> rows[(ord \o SortedSeq(NanIndices(rows)))[p]]] :
      ord \in DescOrders(rows, DOMAIN rows \ NanIndices(rows)) }

\* DataFrame.head(n)
HeadRows(rows, n) == SubSeq(rows, 1, IF Len(rows) < n THEN Len(rows) ELSE n)

TopBridges(scores, buffer) ==
  {HeadRows(sorted, TopN) : sorted \in SortDescending(BufferRows(scores, buffer))}

SummaryRow(buffer, bridge) ==
  [buffer |-> buffer, iop |-> bridge.iop,
   Functionality |-> bridge.Functionality, score |-> bridge.score,
   nec |-> bridge.nec]

\* Every summary_rows list the loop of cell 13 can build.
RECURSIVE SummaryRows(_, _)
SummaryRows(scores, buffers) ==
  IF buffers = <<>> THEN {<<>>}
  ELSE { [k \in DOMAIN top |-> SummaryRow(Head(buffers), top[k])] \o rest :
           top \in TopBridges(scores, Head(buffers)),
           rest \in SummaryRows(scores, Tail(buffers)) }

Summarize ==
  /\ pc = "cell13"
  /\ error = "none"
  /\ \E summary_rows \in SummaryRows(all_scores_df, buffer_distances) :
       summary_df' = summary_rows
  /\ written' = Append(written, "top_critical_bridges_summary.csv")
  /\ pc' = "cell15"
  /\ UNCHANGED <<error, functionality_csv, functionality_df, func_dtype, func_key, efficiency_df,
                 buffer_distances, done_buffers, results,
                 all_criticality_scores, all_scores_df, bridge_frequency>>
  /\ UNCHANGED plot_vars

\* ------------------------------------------------------------------------
\* Cell 15: how often each bridge occurs in the summary table
\* ------------------------------------------------------------------------
\* Series.value_counts(): for each identifier present, its number of rows.
\* count() in place of value_counts(): every bridge gets the table's size.
ValueCounts_TableSize(df) ==
  [b \in {df[k].iop : k \in DOMAIN df} |-> Len(df)]

ValueCounts(df) ==
  [b \in {df[k].iop : k \in DOMAIN df} |->
     Cardinality({k \in DOMAIN df : df[k].iop = b})]

\* bridge_frequency[bridge_frequency > 1]
\* The index of the filtered Series keeps the order of value_counts, most
\* frequent first; that order is resolved where it is used (cell 19).
FrequentMoreThan(freq, m) == {b \in DOMAIN freq : freq[b] > m}

\* pd.DataFrame([]) has no columns, so summary_df['Bridge IOP'] raises
\* KeyError when no group contributed a row.
Frequency ==
  /\ pc = "cell15"
  /\ error = "none"
  /\ IF summary_df = <<>>
     THEN /\ pc' = pc
          /\ error' = "KeyError"
          /\ UNCHANGED <<bridge_frequency, frequent_bridges>>
     ELSE /\ pc' = "cell17"
          /\ error' = error
          /\ bridge_frequency' = ValueCounts(summary_df)
          /\ frequent_bridges' = FrequentMoreThan(ValueCounts(summary_df), 1)
  /\ UNCHANGED <<functionality_csv, functionality_df, func_dtype, func_key, efficiency_df,
                 buffer_distances, done_buffers, results,
                 all_criticality_scores, all_scores_df, summary_df, written,
                 plotted_bridges, buffer_5km>>

\* ------------------------------------------------------------------------
\* Cell 17: one scatter plot per buffer distance on a 4 x 3 grid
\* ------------------------------------------------------------------------
GridRows == 4
GridCols == 3

\* gs[i // 3, i % 3] raises IndexError for the 13th buffer distance;
\* results[buffer] is defined for every buffer distance, cell 10 having
\* looped over the same list.
PlotMatrix ==
  /\ pc = "cell17"
  /\ error = "none"
  /\ IF Len(buffer_distances) > GridRows * GridCols
     THEN /\ pc' = pc
          /\ error' = "IndexError"
     ELSE /\ pc' = "cell19"
          /\ error' = error
  /\ UNCHANGED <<functionality_csv, functionality_df, func_dtype, func_key, efficiency_df,
                 buffer_distances, done_buffers, results,
                 all_criticality_scores, all_scores_df, summary_df,
                 bridge_frequency, written>>
  /\ UNCHANGED plot_vars

\* ------------------------------------------------------------------------
\* Cell 19: efficiency impact of the most frequent bridges
\* ------------------------------------------------------------------------
\* bridge_frequency[bridge_frequency >= 3].index.tolist()
\* > 1 in place of >= 3: the filter of cell 15.
FrequentAtLeast_MoreThanOnce(freq, m) == {b \in DOMAIN freq : freq[b] > 1}

FrequentAtLeast(freq, m) == {b \in DOMAIN freq : freq[b] >= m}

\* frequent_bridges[:5]: the list is in value_counts order, by descending
\* count; value_counts sorts with the default quicksort, so bridges of equal
\* count may stand in any order.  The slices the list can give, as sets.
FirstIds(freq, ids, n) ==
  {P \in SUBSET ids :
     /\ Cardinality(P) = (IF Cardinality(ids) < n THEN Cardinality(ids) ELSE n)
     /\ \A a \in P, b \in ids \ P : freq[b] <= freq[a]}

PlotImpact ==
  /\ pc = "cell19"
  /\ error = "none"
  /\ frequent_bridges' = FrequentAtLeast(bridge_frequency, MinFrequency)
  /\ plotted_bridges' \in
       FirstIds(bridge_frequency,
                FrequentAtLeast(bridge_frequency, MinFrequency), MaxPlotted)
  /\ pc' = "cell21"
  /\ UNCHANGED <<error, functionality_csv, functionality_df, func_dtype, func_key,
                 efficiency_df, buffer_distances, done_buffers, results,
                 all_criticality_scores, all_scores_df, summary_df,
                 bridge_frequency, buffer_5km, written>>

\* ------------------------------------------------------------------------
\* Cell 21: absolute against relative efficiency change for buffer 5
\* ------------------------------------------------------------------------
FixedBuffer == 5

\* results.get(5, empty table) in place of results[5].
Lookup_Default(dict, key) ==
  IF key \in DOMAIN dict THEN [found |-> TRUE, value |-> dict[key]]
  ELSE [found |-> TRUE, value |-> <<>>]

\* results[5]: KeyError when the dict has no such key.
Lookup(dict, key) ==
  IF key \in DOMAIN dict THEN [found |-> TRUE, value |-> dict[key]]
  ELSE [found |-> FALSE, value |-> <<>>]

PlotRelative ==
  /\ pc = "cell21"
  /\ error = "none"
  /\ IF Lookup(results, FixedBuffer).found
     THEN /\ pc' = "done"
          /\ error' = error
          /\ buffer_5km' = Lookup(results, FixedBuffer).value
     ELSE /\ pc' = pc
          /\ error' = "KeyError"
          /\ UNCHANGED buffer_5km
  /\ UNCHANGED <<functionality_csv, functionality_df, func_dtype, func_key, efficiency_df,
                 buffer_distances, done_buffers, results,
                 all_criticality_scores, all_scores_df, summary_df,
                 bridge_frequency, frequent_bridges, plotted_bridges, written>>

Next ==
  \/ Normalize
  \/ ScoreBuffer
  \/ ScoreLoopExit
  \/ Concat
  \/ Summarize
  \/ Frequency
  \/ PlotMatrix
  \/ PlotImpact
  \/ PlotRelative

Spec == Init /\ [][Next]_vars

\* ------------------------------------------------------------------------
\* Cell 5 run a second time
\* ------------------------------------------------------------------------
\* A notebook cell can be run again: cell 5 applied to the table it has
\* already cleaned.  The statements are those of Normalize; the run halts in
\* cell 5 when the first of them raises.
NormalizeAgain ==
  /\ pc # "cell5"
  /\ error = "none"
  /\ IF NormalizeError(functionality_df, func_dtype) # "none"
     THEN /\ pc' = "cell5"
          /\ error' = NormalizeError(functionality_df, func_dtype)
          /\ UNCHANGED <<functionality_df, func_dtype, func_key, buffer_distances>>
     ELSE /\ pc' = pc
          /\ error' = error
          /\ functionality_df' =
               [k \in DOMAIN functionality_df |-> CleanRow(functionality_df[k])]
          /\ func_dtype' = "float64"
          /\ func_key' = "Bridge IOP"
          /\ buffer_distances' = SortedSeq(UniqueBuffers(efficiency_df))
  /\ UNCHANGED <<functionality_csv, efficiency_df, done_buffers, results,
                 all_criticality_scores, all_scores_df, summary_df,
                 bridge_frequency, written>>
  /\ UNCHANGED plot_vars

NextRerun ==
  \/ Next
  \/ NormalizeAgain

SpecRerun == Init /\ [][NextRerun]_vars

\* ========================================================================
\* Properties
\* ========================================================================
InUnitInterval(x) == x.k = "num" /\ 0 <= x.n /\ x.n <= x.d

FuncValues(rows) == {rows[k].Functionality : k \in DOMAIN rows}
EffValues(rows) == {Abs(rows[k].change) : k \in DOMAIN rows}

\* More than one distinct Functionality and more than one distinct |change|.
NonDegenerate(rows) ==
  Cardinality(FuncValues(rows)) > 1 /\ Cardinality(EffValues(rows)) > 1

\* C1: in every scored buffer group with more than one distinct
\* Functionality value and more than one distinct |Change in Efficiency|
\* value, Norm_Func, Norm_Eff and Criticality Score of every row lie in [0,1].
C1_ScoresInUnitInterval ==
  \A b \in DOMAIN results :
    NonDegenerate(results[b]) =>
      \A k \in DOMAIN results[b] :
        /\ InUnitInterval(results[b][k].Norm_Func)
        /\ InUnitInterval(results[b][k].Norm_Eff)
        /\ InUnitInterval(results[b][k].score)

\* A non-degenerate group has been scored, with one row at the top of the
\* interval and another strictly inside it.
C1_Witness ==
  \E b \in DOMAIN results :
    /\ NonDegenerate(results[b])
    /\ \E k \in DOMAIN results[b] : results[b][k].score = Num(1)
    /\ \E k \in DOMAIN results[b] :
         FGt(results[b][k].score, Num(0)) /\ FGt(Num(1), results[b][k].score)

\* C2: in every non-degenerate buffer group each row's Criticality Score is
\* ((maxF - f)/(maxF - minF) + (|c| - minE)/(maxE - minE)) / 2 with the
\* extremes taken over the joined rows of that buffer: a row with the lowest
\* functionality and the largest |change| scores 1, a row with the highest
\* functionality and the smallest |change| scores 0.
C2_ScoreFormula ==
  \A b \in DOMAIN results :
    LET rows == results[b]
        minF == SetMin(FuncValues(rows))
        maxF == SetMax(FuncValues(rows))
        minE == SetMin(EffValues(rows))
        maxE == SetMax(EffValues(rows))
    IN  NonDegenerate(rows) =>
          \A k \in DOMAIN rows :
            LET f == rows[k].Functionality
                c == Abs(rows[k].change)
                s == rows[k].score
            IN  /\ s.k = "num"
                /\ s.n * (2 * (maxF - minF) * (maxE - minE)) =
                     s.d * ((maxF - f) * (maxE - minE) + (c - minE) * (maxF - minF))
                /\ (f = minF /\ c = maxE) => s = Num(1)
                /\ (f = maxF /\ c = minE) => s = Num(0)

\* The two-row scenario: the first row has the lower functionality and the
\* larger |change|, and the group scores [1, 0].
C2_Witness ==
  \E b \in DOMAIN results :
    /\ Len(results[b]) = 2
    /\ results[b][1].Functionality < results[b][2].Functionality
    /\ Abs(results[b][1].change) > Abs(results[b][2].change)
    /\ results[b][1].score = Num(1)
    /\ results[b][2].score = Num(0)

\* No bridge identifier occurs in two rows of the table.
UniqueIds(df) ==
  \A j, k \in DOMAIN df : df[j].iop = df[k].iop => j = k

Min2(a, b) == IF a < b THEN a ELSE b

\* C3 as stated: for every buffer distance b the inner join has at most
\* min(number of functionality rows, number of efficiency rows with
\* buffer = b) rows, whatever the two tables contain.
C3_JoinCountAnyInput ==
  \A b \in DOMAIN results :
    Len(results[b]) <=
      Min2(Len(functionality_df), Len(BufferRows(efficiency_df, b)))

\* C3 amended: the bound holds when no identifier is repeated in the
\* functionality table nor among the efficiency rows of buffer b; for any
\* input the join has at most one row per pairing of the two sides.
C3_JoinCountUniqueIds ==
  \A b \in DOMAIN results :
    LET buffer_df == BufferRows(efficiency_df, b)
    IN  /\ Len(results[b]) <= Len(functionality_df) * Len(buffer_df)
        /\ (UniqueIds(functionality_df) /\ UniqueIds(buffer_df)) =>
             Len(results[b]) <= Min2(Len(functionality_df), Len(buffer_df))

\* A join over tables without repeated identifiers that kept one bridge
\* and dropped another.
C3_Witness ==
  \E b \in DOMAIN results :
    LET buffer_df == BufferRows(efficiency_df, b)
    IN  /\ UniqueIds(functionality_df) /\ UniqueIds(buffer_df)
        /\ Len(buffer_df) = 2
        /\ Len(functionality_df) = 1
        /\ Len(results[b]) = 1

\* The rows of the summary table that belong to one buffer distance.
Selected(b) == SelectSeq(summary_df, LAMBDA r : r.buffer = b)

\* The scored rows of one buffer distance, as summary rows.
GroupRows(b) ==
  LET g == BufferRows(all_scores_df, b)
  IN  [k \in DOMAIN g |-> SummaryRow(b, g[k])]

Occurrences(rows, r) == Cardinality({k \in DOMAIN rows : rows[k] = r})

Above(rows, x) == Cardinality({k \in DOMAIN rows : FGt(rows[k].score, x)})

SummaryBuilt == pc \in {"cell15", "cell17", "cell19", "cell21", "done"}

\* C4: the rows selected as a group's top 10 are a subset of the group's
\* scored rows, number exactly min(10, group size), are in non-increasing
\* order of Criticality Score, and no unselected row of the group scores
\* strictly higher than a selected one.
C4_TopTenSelection ==
  SummaryBuilt =>
    \A j \in DOMAIN buffer_distances :
      LET b == buffer_distances[j]
          sel == Selected(b)
          grp == GroupRows(b)
      IN  /\ \A k \in DOMAIN sel :
               Occurrences(sel, sel[k]) <= Occurrences(grp, sel[k])
          /\ Len(sel) = Min2(10, Len(grp))
          /\ \A k, m \in DOMAIN sel :
               k < m => ~FGt(sel[m].score, sel[k].score)
          /\ \A k \in DOMAIN sel :
               Above(grp, sel[k].score) = Above(sel, sel[k].score)

\* A group of more than ten scored rows was cut to ten, leaving out a row
\* that scores strictly below every selected one, out of file order.
C4_Witness ==
  /\ SummaryBuilt
  /\ \E j \in DOMAIN buffer_distances :
       LET b == buffer_distances[j]
           sel == Selected(b)
           grp == GroupRows(b)
       IN  /\ Len(grp) > 10
           /\ Len(sel) = 10
           /\ \E g \in DOMAIN grp :
                \A k \in DOMAIN sel : FGt(sel[k].score, grp[g].score)
           /\ sel[1] # grp[1]

\* No (bridge, buffer) pair occurs in two rows of the table.
UniquePairs(df) ==
  \A j, k \in DOMAIN df :
    (df[j].iop = df[k].iop /\ df[j].buffer = df[k].buffer) => j = k

\* The input tables honour the data model: one functionality row per
\* bridge, one efficiency row per bridge and buffer distance.
UniqueKeys == UniqueIds(functionality_df) /\ UniquePairs(efficiency_df)

SummaryIds == {summary_df[k].iop : k \in DOMAIN summary_df}

\* The buffer groups in whose top 10 the bridge appears.
GroupsOf(id) ==
  {summary_df[k].buffer : k \in {m \in DOMAIN summary_df : summary_df[m].iop = id}}

\* Cell 15 has counted the bridges of the summary table.
FrequencyBuilt == pc \in {"cell17", "cell19", "cell21", "done"}

RECURSIVE SumOver(_, _)
SumOver(f, S) ==
  IF S = {} THEN 0
  ELSE LET x == CHOOSE y \in S : TRUE IN f[x] + SumOver(f, S \ {x})

\* C5 as stated: for any input tables, a bridge's frequency equals the
\* number of distinct buffer groups in whose top 10 it appears, and never
\* exceeds the number of buffer groups.
C5_FrequencyAnyInput ==
  FrequencyBuilt =>
    /\ DOMAIN bridge_frequency = SummaryIds
    /\ \A id \in SummaryIds :
         /\ bridge_frequency[id] = Cardinality(GroupsOf(id))
         /\ bridge_frequency[id] <= Len(buffer_distances)

\* C5 amended: the frequency is the number of summary rows that carry the
\* bridge (the frequencies add up to the size of the summary table, and
\* each is at least the number of groups the bridge appears in); it equals
\* the number of distinct buffer groups when the input tables repeat no
\* bridge within the functionality table or within a buffer distance.
C5_FrequencyUniqueKeys ==
  FrequencyBuilt =>
    /\ DOMAIN bridge_frequency = SummaryIds
    /\ SumOver(bridge_frequency, SummaryIds) = Len(summary_df)
    /\ \A id \in SummaryIds : bridge_frequency[id] >= Cardinality(GroupsOf(id))
    /\ UniqueKeys =>
         \A id \in SummaryIds :
           /\ bridge_frequency[id] = Cardinality(GroupsOf(id))
           /\ bridge_frequency[id] <= Len(buffer_distances)

\* Tables without repeated keys in which one bridge reached the top 10 of
\* two buffer groups and another the top 10 of only one.
C5_Witness ==
  /\ FrequencyBuilt
  /\ UniqueKeys
  /\ \E id \in DOMAIN bridge_frequency : bridge_frequency[id] = 2
  /\ \E id \in DOMAIN bridge_frequency : bridge_frequency[id] = 1

PairCount(df, id, b) ==
  Cardinality({k \in DOMAIN df : df[k].iop = id /\ df[k].buffer = b})

IdCount(df, id) == Cardinality({k \in DOMAIN df : df[k].iop = id})

Concatenated == pc \in {"cell13", "cell15", "cell17", "cell19", "cell21", "done"}

\* C6 as stated: no two rows of the comprehensive scored table share the
\* same Bridge IOP and the same Buffer Distance.
C6_OneRowPerPair == UniquePairs(all_scores_df)

\* C6 amended: the comprehensive table holds, for every bridge and buffer
\* distance, one row per pairing of an efficiency row of that bridge and
\* buffer with a functionality row of that bridge; so it holds exactly one
\* row per (bridge, buffer) pair present on both sides when the input
\* tables repeat no bridge within the functionality table or within a
\* buffer distance.
C6_OneRowPerPairUniqueKeys ==
  /\ UniqueKeys => UniquePairs(all_scores_df)
  /\ Concatenated =>
       \A id \in BridgeIds \cup {functionality_df[k].iop : k \in DOMAIN functionality_df},
          b \in UniqueBuffers(efficiency_df) :
         PairCount(all_scores_df, id, b) =
           PairCount(efficiency_df, id, b) * IdCount(functionality_df, id)

\* Tables without repeated keys gave a comprehensive table in which one
\* bridge has a row at two buffer distances.
C6_Witness ==
  /\ Concatenated
  /\ UniqueKeys
  /\ \E j, k \in DOMAIN all_scores_df :
       /\ all_scores_df[j].iop = all_scores_df[k].iop
       /\ all_scores_df[j].buffer < all_scores_df[k].buffer

FuncIds == {functionality_df[k].iop : k \in DOMAIN functionality_df}

EffIds(b) ==
  {efficiency_df[k].iop :
     k \in {m \in DOMAIN efficiency_df : efficiency_df[m].buffer = b}}

\* Some bridge is on one side only for buffer distance b.
MissingAt(b) == EffIds(b) # FuncIds

AllScored == Flatten(all_criticality_scores)

\* Every accumulated row joins a functionality row with an efficiency row
\* of its buffer distance.
RowsAreJoined ==
  \A k \in DOMAIN AllScored :
    /\ AllScored[k].iop \in FuncIds
    /\ AllScored[k].iop \in EffIds(AllScored[k].buffer)

\* The extremes used by a non-degenerate group are attained by its own
\* rows: the normalised values 0 and 1 both occur in each metric.
ExtremesFromJoinedRows ==
  \A b \in DOMAIN results :
    NonDegenerate(results[b]) =>
      \A x \in {Num(0), Num(1)} :
        /\ \E k \in DOMAIN results[b] : results[b][k].Norm_Func = x
        /\ \E k \in DOMAIN results[b] : results[b][k].Norm_Eff = x

\* A run that got past the Normalizer with a bridge missing from one side
\* of some buffer group has not halted.
AbsenceDoesNotStopRun ==
  (pc # "cell5" /\ \E b \in UniqueBuffers(efficiency_df) : MissingAt(b)) =>
    (error = "none" \/ pc = "cell21")

\* C7: every row of the comprehensive table for buffer b has a bridge that
\* occurs in the functionality table and in the efficiency rows of buffer
\* b; a bridge missing from either side contributes no row, takes no part
\* in the group's min/max, and its absence does not stop the run.
C7_MissingBridgeDropped ==
  RowsAreJoined /\ ExtremesFromJoinedRows /\ AbsenceDoesNotStopRun

\* A number followed by exactly one trailing percent sign.
WellFormedPercent(text) ==
  /\ Len(text) >= 2
  /\ text[Len(text)] = "%"
  /\ IsNumericText(SubSeq(text, 1, Len(text) - 1))

\* The lengths of the leading part of the text that is a number followed
\* by percent signs only (none, one or several).
NumberPrefixes(text) ==
  {j \in DOMAIN text :
     /\ IsNumericText(SubSeq(text, 1, j))
     /\ \A m \in (j + 1)..Len(text) : text[m] = "%"}

PastNormalizer == pc # "cell5"

NothingScored ==
  /\ pc = "cell5"
  /\ buffer_distances = <<>>
  /\ results = <<>>
  /\ all_criticality_scores = <<>>
  /\ functionality_df = LoadFunctionality(functionality_csv)

Degenerate(rows) ==
  /\ rows # <<>>
  /\ Cardinality(FuncValues(rows)) = 1 \/ Cardinality(EffValues(rows)) = 1

ScorerFinished == pc \notin {"cell5", "cell10"}

\* C9: when all joined rows of a buffer group share the same Functionality
\* or the same |Change in Efficiency| (a single joined row included), the
\* Scorer raises no error, every row of the group gets an undefined (NaN)
\* Criticality Score, the rows are still accumulated into the comprehensive
\* table, and processing continues with the next buffer group.
C9_DegenerateGroupUndefined ==
  /\ pc = "cell10" => error = "none"
  /\ Len(all_criticality_scores) = done_buffers
  /\ DOMAIN results = {buffer_distances[j] : j \in 1..done_buffers}
  /\ ScorerFinished => done_buffers = Len(buffer_distances)
  /\ \A j \in DOMAIN all_criticality_scores :
       LET b == buffer_distances[j]
       IN  /\ Len(all_criticality_scores[j]) = Len(results[b])
           /\ Degenerate(results[b]) =>
                /\ \A k \in DOMAIN results[b] :
                     /\ results[b][k].score = NaN
                     /\ all_criticality_scores[j][k].score = NaN
                     /\ all_criticality_scores[j][k].iop = results[b][k].iop
                /\ Concatenated =>
                     PairCount(all_scores_df, results[b][1].iop, b) >= 1

\* A degenerate group of several rows was scored NaN, a later buffer group
\* was scored with defined values, and both are in the comprehensive table.
C9_Witness ==
  /\ Concatenated
  /\ \E i, j \in DOMAIN buffer_distances :
       /\ i < j
       /\ Len(results[buffer_distances[i]]) > 1
       /\ Degenerate(results[buffer_distances[i]])
       /\ NonDegenerate(results[buffer_distances[j]])
       /\ \E k, m \in DOMAIN all_scores_df :
            /\ all_scores_df[k].buffer = buffer_distances[i]
            /\ all_scores_df[k].score = NaN
            /\ all_scores_df[m].buffer = buffer_distances[j]
            /\ all_scores_df[m].score = Num(1)

\* Efficiency tables that differ from eff in one row of a buffer distance
\* other than b: a row removed, a row changed (its change, its bridge or
\* its buffer), or a row added in front or at the end.
RemoveAt(s, k) == SubSeq(s, 1, k - 1) \o SubSeq(s, k + 1, Len(s))

InsertAt(s, k, r) == SubSeq(s, 1, k) \o <<r>> \o SubSeq(s, k + 1, Len(s))

OtherRows(b) ==
  [iop : BridgeIds, buffer : (Buffers \cup {20}) \ {b}, change : {-9}]

OtherBufferEdits(eff, b) ==
  LET others == {k \in DOMAIN eff : eff[k].buffer # b}
  IN  {RemoveAt(eff, k) : k \in others}
        \cup {[eff EXCEPT ![k].change = -9] : k \in others}
        \cup {[eff EXCEPT ![k].iop = 1] : k \in others}
        \cup {[eff EXCEPT ![k].buffer = 20] : k \in others}
        \cup {InsertAt(eff, k, r) : k \in {0, Len(eff)}, r \in OtherRows(b)}

\* Functionality tables that differ from func in one row of a bridge that
\* has no efficiency row at buffer distance b.
UnjoinedFuncEdits(func, eff, b) ==
  LET joined == {eff[k].iop : k \in {m \in DOMAIN eff : eff[m].buffer = b}}
      others == {k \in DOMAIN func : func[k].iop \notin joined}
  IN  {RemoveAt(func, k) : k \in others}
        \cup {[func EXCEPT ![k].num = v] : k \in others, v \in {0, 99}}

\* C10: normalisation is per group: the scored rows of buffer group b are
\* those the Scorer computes from any efficiency table that differs only
\* in rows of other buffer distances (added, removed or changed), and from
\* any functionality table that differs only in bridges not joined in b.
\* (results is written by the Scorer only, so the state in which the
\* Scorer has finished decides.)
C10_PerGroupNormalization ==
  pc = "cell11" =>
    \A b \in DOMAIN results :
      /\ \A eff2 \in OtherBufferEdits(efficiency_df, b) :
           ScoredFor(eff2, functionality_df, b) = results[b]
      /\ \A func2 \in UnjoinedFuncEdits(functionality_df, efficiency_df, b) :
           ScoredFor(efficiency_df, func2, b) = results[b]

\* A non-degenerate group was scored next to another buffer group whose
\* joined rows reach a larger |change| than any of its own.
C10_Witness ==
  \E b, c \in DOMAIN results :
    /\ b # c
    /\ NonDegenerate(results[b])
    /\ results[c] # <<>>
    /\ SetMax(EffValues(results[c])) > SetMax(EffValues(results[b]))

\* The row numbers of a table by descending score as a stable sort leaves
\* them: of rows that compare equal the earlier one first, NaN rows last.
RECURSIVE StableOrder(_, _)
StableOrder(rows, S) ==
  IF S = {} THEN <<>>
  ELSE LET top == {m \in S : \A j \in S : ~FGt(rows[j].score, rows[m].score)}
       IN  <<SetMin(top)>> \o StableOrder(rows, S \ {SetMin(top)})

StableDescending(rows) ==
  LET ord == StableOrder(rows, DOMAIN rows \ NanIndices(rows))
               \o SortedSeq(NanIndices(rows))
  IN  [p \in DOMAIN rows |-> rows[ord[p]]]

C12_SecondNormalizeFails ==
  [][NormalizeAgain =>
       /\ error' # "none"
       /\ pc' = "cell5"
       /\ functionality_df' = functionality_df
       /\ func_dtype' = func_dtype
       /\ func_key' = func_key]_vars

\* The second application has failed on a cleaned, non-empty table whose
\* values came from percent strings.
C12_Witness ==
  /\ pc = "cell5"
  /\ error = "AttributeError"
  /\ func_key = "Bridge IOP"
  /\ functionality_df # <<>>
  /\ \A k \in DOMAIN functionality_df :
       /\ functionality_df[k].text = <<>>
       /\ PercentText(functionality_df[k].num) = functionality_csv[k].text

\* C13: in the comprehensive table and in the summary table a row of a
\* smaller buffer distance precedes every row of a larger one, and within
\* one buffer distance the rows of the summary table are in rank order: no
\* row scores higher than a row before it.
C13_AscendingBufferBlocks ==
  /\ Concatenated =>
       \A k, m \in DOMAIN all_scores_df :
         k < m => all_scores_df[k].buffer <= all_scores_df[m].buffer
  /\ SummaryBuilt =>
       \A k, m \in DOMAIN summary_df :
         k < m =>
           /\ summary_df[k].buffer <= summary_df[m].buffer
           /\ summary_df[k].buffer = summary_df[m].buffer =>
                ~FGt(summary_df[m].score, summary_df[k].score)

\* Both tables hold rows of several buffer distances, the efficiency file
\* lists a larger distance before a smaller one, and a block of the summary
\* table has rows of different scores.
C13_Witness ==
  /\ SummaryBuilt
  /\ \E k, m \in DOMAIN efficiency_df :
       k < m /\ efficiency_df[k].buffer > efficiency_df[m].buffer
  /\ \E k, m \in DOMAIN all_scores_df :
       all_scores_df[k].buffer < all_scores_df[m].buffer
  /\ \E k, m \in DOMAIN summary_df :
       /\ summary_df[k].buffer < summary_df[m].buffer
       /\ FGt(summary_df[m].score, summary_df[k].score)
  /\ \E k, m \in DOMAIN summary_df :
       /\ summary_df[k].buffer = summary_df[m].buffer
       /\ FGt(summary_df[k].score, summary_df[m].score)

\* Cell 19 has chosen the bridges whose trajectories it overlays.
Impacted == pc \in {"cell21", "done"}

\* The number of summary rows that carry a bridge.
RowCount(id) ==
  Cardinality({k \in DOMAIN summary_df : summary_df[k].iop = id})

\* P is a choice of the n most frequent bridges of the set ids (all of them
\* when there are fewer): no bridge left out is more frequent than one
\* taken.
MostFrequent(P, ids, n) ==
  /\ P \subseteq ids
  /\ Cardinality(P) = Min2(n, Cardinality(ids))
  /\ \A a \in P, b \in ids \ P : RowCount(b) <= RowCount(a)

\* C14 as stated: the overlaid bridges are the min(5, k) most frequent of
\* the k bridges that are in the top 10 of more than one buffer group.
C14_TopFiveOfRecurring ==
  Impacted =>
    MostFrequent(plotted_bridges,
                 {id \in SummaryIds : Cardinality(GroupsOf(id)) > 1}, 5)

\* C14 amended: the overlaid bridges are the min(5, k) most frequent of the
\* k bridges that the summary table lists at least three times; a bridge
\* listed once or twice is never overlaid.
C14_TopFiveOfThrice ==
  Impacted =>
    /\ MostFrequent(plotted_bridges, {id \in SummaryIds : RowCount(id) >= 3}, 5)
    /\ frequent_bridges = {id \in SummaryIds : RowCount(id) >= 3}

\* More than five bridges recur three times or more, five of them are
\* overlaid, a bridge as frequent as one of these is left out, and so is a
\* bridge that is in the top 10 of two groups.
C14_Witness ==
  /\ Impacted
  /\ Cardinality(frequent_bridges) > 5
  /\ Cardinality(plotted_bridges) = 5
  /\ \E a \in plotted_bridges, b \in frequent_bridges \ plotted_bridges :
       RowCount(a) = RowCount(b)
  /\ \E a \in plotted_bridges : RowCount(a) > 3
  /\ \E id \in SummaryIds : Cardinality(GroupsOf(id)) = 2 /\ RowCount(id) = 2

\* The run is over: it halted on an error or ran through its last cell.
RunEnded == error # "none" \/ pc = "done"

LookupFailed == pc = "cell21" /\ error # "none"

BothWritten ==
  written = <<"all_buffer_criticality_scores.csv",
              "top_critical_bridges_summary.csv">>

\* C15 as stated: a run on an efficiency table without a row of buffer
\* distance 5 always ends in the lookup error of the last step; the lookup
\* fails only after both CSV files are written, and never when buffer
\* distance 5 is present.
C15_LookupAsStated ==
  /\ (RunEnded /\ 5 \notin UniqueBuffers(efficiency_df)) =>
       (LookupFailed /\ error = "KeyError")
  /\ LookupFailed => BothWritten
  /\ 5 \in UniqueBuffers(efficiency_df) => ~LookupFailed

\* C15 amended: a run that reaches the last step ends there in a lookup
\* error (KeyError) exactly when no efficiency row has buffer distance 5,
\* and then both CSV files are already written, the comprehensive table
\* first; with buffer distance 5 present the step yields the scored group of
\* buffer 5.  A run without buffer distance 5 can also halt earlier.
C15_LookupWhenReached ==
  /\ LookupFailed =>
       /\ error = "KeyError"
       /\ 5 \notin UniqueBuffers(efficiency_df)
       /\ BothWritten
  /\ pc = "done" =>
       /\ error = "none"
       /\ 5 \in UniqueBuffers(efficiency_df)
       /\ buffer_5km = results[5]
       /\ BothWritten
  /\ (pc = "cell21" /\ 5 \in UniqueBuffers(efficiency_df)) => error = "none"

\* The lookup failed on a run that scored and summarised another buffer
\* distance.
C15_Witness ==
  /\ LookupFailed
  /\ summary_df # <<>>
  /\ bridge_frequency # <<>>
  /\ BothWritten

====
